---- MODULE Spec2Model ----
(***************************************************************************)
(* hasura-codegen-operations: the model descriptor builder.                *)
(*                                                                         *)
(* Identifiers (model names, type names, field names, rule terms) are      *)
(* sequences of one-character strings, so that snake/camel conversion,     *)
(* startsWith, endsWith and exact comparison are computed on characters.   *)
(* The alphabet is letters and "_" (no digits, dots, dashes or spaces).    *)
(***************************************************************************)
EXTENDS Integers, Sequences, FiniteSets, TLC

VARIABLES
  pc,          \* position of the run: "init" before the call, "done" after
  schema,      \* GraphQLSchema handed to buildModelSchemas
  models,      \* model names handed to buildModelSchemas
  options,     \* BuildModelSchemaOptions
  result,      \* outcome of buildModelSchemas: a map or a thrown error
  modelType,   \* type handed to buildModelSchema
  fieldList,   \* ModelFieldSchema[] returned by buildModelSchema
  gqlType,     \* GraphQLType handed to getInnerSchemaType
  key,         \* field name the seed descriptor is built for
  inner,       \* ModelFieldSchema | null returned by getInnerSchemaType
  fields,      \* field list handed to sortFieldOrder
  headFields,  \* head names handed to sortFieldOrder
  tailFields,  \* tail names handed to sortFieldOrder
  sorted,      \* list returned by sortFieldOrder
  calls,       \* the calls of buildModelSchemas made so far, with their outcomes
  loader,      \* bootstrap: the parsed configuration, defaultConfigs and what it did
  question,    \* a name-list question of the prompt: its answer and the verdict
  run          \* generate: the selected actions and the progress of each step

vars == <<pc, schema, models, options, result, modelType, fieldList,
          gqlType, key, inner, fields, headFields, tailFields, sorted, calls,
          loader, question, run>>

buildVars  == <<schema, models, options, result>>
fieldsVars == <<modelType, fieldList>>
unwrapVars == <<gqlType, key, inner>>
sortVars   == <<fields, headFields, tailFields, sorted>>
cliVars    == <<loader, question, run>>

(***************************************************************************)
(* Bounds of the model.                                                    *)
(***************************************************************************)
MaxWrap == 3        \* wrappers around a named type
MaxFields == 2      \* fields of a type handed to buildModelSchema
MaxRules == 1       \* entries of one disable list
MaxSortFields == 4  \* fields handed to sortFieldOrder
MaxOrderNames == 2  \* entries of headFields / tailFields
MaxTypes == 3       \* named types of a schema
MaxModels == 2      \* model names of one call
MaxCalls == 3       \* calls of buildModelSchemas in one run
MaxAnswerLen == 3   \* characters of an answer typed at the prompt

Range(s) == {s[i] : i \in 1..Len(s)}

\* all sequences over S of length 0..n
RECURSIVE SeqsUpTo(_, _)
SeqsUpTo(S, n) ==
  IF n = 0 THEN {<<>>}
  ELSE LET shorter == SeqsUpTo(S, n - 1)
       IN shorter \cup {Append(s, x) : s \in {t \in shorter : Len(t) = n - 1}, x \in S}

\* sequences without repeated elements
DistinctSeqsUpTo(S, n) ==
  {s \in SeqsUpTo(S, n) : \A i, j \in 1..Len(s) : i # j => s[i] # s[j]}

(***************************************************************************)
(* Strings: JavaScript String operations used by the code, on characters.  *)
(***************************************************************************)
Lowers == <<"a","b","c","d","e","f","g","h","i","j","k","l","m",
            "n","o","p","q","r","s","t","u","v","w","x","y","z">>
Uppers == <<"A","B","C","D","E","F","G","H","I","J","K","L","M",
            "N","O","P","Q","R","S","T","U","V","W","X","Y","Z">>

UpperSet == Range(Uppers)
LowerSet == Range(Lowers)
LowerOf == [c \in UpperSet |-> Lowers[CHOOSE i \in 1..Len(Uppers) : Uppers[i] = c]]
UpperOf == [c \in LowerSet |-> Uppers[CHOOSE i \in 1..Len(Lowers) : Lowers[i] = c]]

isUpper(c) == c \in UpperSet
isLower(c) == c \in LowerSet
toLowerChar(c) == IF isUpper(c) THEN LowerOf[c] ELSE c
toUpperChar(c) == IF isLower(c) THEN UpperOf[c] ELSE c

toLowerCase(s) == [i \in 1..Len(s) |-> toLowerChar(s[i])]

startsWith(s, t) == Len(t) <= Len(s) /\ SubSeq(s, 1, Len(t)) = t
endsWith(s, t) == Len(t) <= Len(s) /\ SubSeq(s, Len(s) - Len(t) + 1, Len(s)) = t
\* Array.prototype.includes on a list of strings
includes(list, s) == \E i \in 1..Len(list) : list[i] = s

\* radash: str.replace(/([A-Z])+/g, capitalize): every maximal run of upper
\* case letters keeps its first letter and has the others lower-cased.
capitalizeRuns(s) ==
  [i \in 1..Len(s) |->
     IF i > 1 /\ isUpper(s[i]) /\ isUpper(s[i - 1]) THEN toLowerChar(s[i]) ELSE s[i]]

\* radash: .split(/(?=[A-Z])|[\.\-\s_]/): a separator ends the current part
\* and is dropped; an upper case letter ends a non-empty current part and
\* starts the next one (String.prototype.split skips an empty match at the
\* start of a part).
RECURSIVE splitWords(_, _, _, _)
splitWords(s, i, parts, cur) ==
  IF i > Len(s) THEN Append(parts, cur)
  ELSE IF s[i] = "_" THEN splitWords(s, i + 1, Append(parts, cur), <<>>)
  ELSE IF isUpper(s[i]) /\ cur # <<>>
       THEN splitWords(s, i + 1, Append(parts, cur), <<s[i]>>)
  ELSE splitWords(s, i + 1, parts, Append(cur, s[i]))

wordParts(s) ==
  LET ps == splitWords(capitalizeRuns(s), 1, <<>>, <<>>)
  IN [i \in 1..Len(ps) |-> toLowerCase(ps[i])]

RECURSIVE joinSnake(_, _)
joinSnake(parts, n) ==
  IF n = 1 THEN parts[1] ELSE joinSnake(parts, n - 1) \o <<"_">> \o parts[n]

RECURSIVE joinCamel(_, _)
joinCamel(parts, n) ==
  IF n = 1 THEN parts[1]
  ELSE joinCamel(parts, n - 1) \o
       (IF parts[n] = <<>> THEN <<>>
        ELSE <<toUpperChar(parts[n][1])>> \o SubSeq(parts[n], 2, Len(parts[n])))

\* radash snake(str), on names without digits
snake(str) == LET parts == wordParts(str) IN joinSnake(parts, Len(parts))

\* radash camel(str)
camel(str) == LET parts == wordParts(str) IN joinCamel(parts, Len(parts))

(***************************************************************************)
(* GraphQL types.  A type expression is the list of its wrappers, the      *)
(* outermost first, around a named type: [Int!]! is                        *)
(* [wrappers |-> <<"NonNull","List","NonNull">>, name |-> Int, kind |-> "Scalar"]. *)
(***************************************************************************)
Kinds == {"Scalar", "Enum", "Object", "InputObject", "Interface", "Union"}

isNonNullType(t) == t.wrappers # <<>> /\ t.wrappers[1] = "NonNull"
isListType(t)    == t.wrappers # <<>> /\ t.wrappers[1] = "List"
isObjectType(t)      == t.wrappers = <<>> /\ t.kind = "Object"
isInputObjectType(t) == t.wrappers = <<>> /\ t.kind = "InputObject"
isEnumType(t)        == t.wrappers = <<>> /\ t.kind = "Enum"
\* gqlType.ofType
ofType(t) == [t EXCEPT !.wrappers = Tail(t.wrappers)]

\* the value null
Null == [null |-> TRUE]

\* getInnerSchemaType whose non-null branch restarts from array = false (mutant)
RECURSIVE getInnerSchemaTypeResetArray(_, _)
getInnerSchemaTypeResetArray(t, fieldSchema) ==
  IF isNonNullType(t)
    THEN getInnerSchemaTypeResetArray(ofType(t),
           [fieldSchema EXCEPT !.nullable = FALSE, !.array = FALSE])
  ELSE IF isObjectType(t) \/ isInputObjectType(t) THEN Null
  ELSE IF isListType(t)
    THEN getInnerSchemaTypeResetArray(ofType(t), [fieldSchema EXCEPT !.array = TRUE])
  ELSE IF isEnumType(t) THEN [fieldSchema EXCEPT !.type = t.name, !.isEnum = TRUE]
  ELSE [fieldSchema EXCEPT !.type = t.name]

\* getInnerSchemaType without the object / input-object branch (mutant)
RECURSIVE getInnerSchemaTypeNoObject(_, _)
getInnerSchemaTypeNoObject(t, fieldSchema) ==
  IF isNonNullType(t)
    THEN getInnerSchemaTypeNoObject(ofType(t), [fieldSchema EXCEPT !.nullable = FALSE])
  ELSE IF isListType(t)
    THEN getInnerSchemaTypeNoObject(ofType(t), [fieldSchema EXCEPT !.array = TRUE])
  ELSE IF isEnumType(t) THEN [fieldSchema EXCEPT !.type = t.name, !.isEnum = TRUE]
  ELSE [fieldSchema EXCEPT !.type = t.name]

RECURSIVE getInnerSchemaType(_, _)
getInnerSchemaType(t, fieldSchema) ==
  IF isNonNullType(t)
    THEN getInnerSchemaType(ofType(t), [fieldSchema EXCEPT !.nullable = FALSE])
  ELSE IF isObjectType(t) \/ isInputObjectType(t) THEN Null
  ELSE IF isListType(t)
    THEN getInnerSchemaType(ofType(t), [fieldSchema EXCEPT !.array = TRUE])
  ELSE IF isEnumType(t) THEN [fieldSchema EXCEPT !.type = t.name, !.isEnum = TRUE]
  ELSE [fieldSchema EXCEPT !.type = t.name]

\* seed descriptor with nullable = false (mutant)
seedSchemaNotNullable(k) ==
  [name |-> k, type |-> <<>>, array |-> FALSE, nullable |-> FALSE, isEnum |-> FALSE]

\* the seed descriptor buildModelSchema passes to getInnerSchemaType
seedSchema(k) ==
  [name |-> k, type |-> <<>>, array |-> FALSE, nullable |-> TRUE, isEnum |-> FALSE]

(***************************************************************************)
(* Options.  A list typed "string[] | undefined" is                        *)
(* [defined |-> BOOLEAN, list |-> names]; headFields and tailFields are    *)
(* plain lists.                                                            *)
(***************************************************************************)
Undefined == [defined |-> FALSE, list |-> <<>>]
Defined(l) == [defined |-> TRUE, list |-> l]

\* Boolean(opt?.includes(k))
optIncludes(opt, k) == opt.defined /\ includes(opt.list, k)
\* Boolean(opt?.some((disabledTerm) => k.startsWith(disabledTerm)))
optSomeStartsWith(opt, k) ==
  opt.defined /\ \E i \in 1..Len(opt.list) : startsWith(k, opt.list[i])
\* Boolean(opt?.some((disabledTerm) => k.endsWith(disabledTerm)))
optSomeEndsWith(opt, k) ==
  opt.defined /\ \E i \in 1..Len(opt.list) : endsWith(k, opt.list[i])

\* substring test of the exact-name rule (mutant: key.includes(term))
isDisabledSubstring(k, opts) ==
  \/ opts.disableFields.defined /\
       \E i \in 1..Len(opts.disableFields.list) :
         \E j \in 0..Len(k) : startsWith(SubSeq(k, j + 1, Len(k)), opts.disableFields.list[i])
  \/ optSomeStartsWith(opts.disableFieldPrefixes, k)
  \/ optSomeEndsWith(opts.disableFieldSuffixes, k)

\* the condition of the early return of buildModelSchema's reducer
isDisabled(k, opts) ==
  \/ optIncludes(opts.disableFields, k)
  \/ optSomeStartsWith(opts.disableFieldPrefixes, k)
  \/ optSomeEndsWith(opts.disableFieldSuffixes, k)

\* one step of the reduce of buildModelSchema
buildFieldStep(acc, field, opts) ==
  IF isDisabled(field.name, opts) THEN acc
  ELSE LET fieldSchema == getInnerSchemaType(field.type, seedSchema(field.name))
       IN IF fieldSchema = Null THEN acc ELSE Append(acc, fieldSchema)

RECURSIVE buildModelSchemaUpTo(_, _, _)
buildModelSchemaUpTo(type, opts, n) ==
  IF n = 0 THEN <<>>
  ELSE buildFieldStep(buildModelSchemaUpTo(type, opts, n - 1), type.fields[n], opts)

\* buildModelSchema(modelType, options): type.fields is the field map in
\* Object.keys order (declaration order)
buildModelSchema(type, opts) == buildModelSchemaUpTo(type, opts, Len(type.fields))

(***************************************************************************)
(* Field ordering.                                                         *)
(***************************************************************************)
\* pickField that leaves the picked field in remain (mutant)
pickFieldKeep(pair, name) ==
  LET hs == pair[1]
      remain == pair[2]
      found == SelectSeq(remain, LAMBDA f : f.name = name)
  IN IF found = <<>> THEN pair ELSE <<Append(hs, found[1]), remain>>

pickField(pair, name) ==
  LET hs == pair[1]
      remain == pair[2]
      found == SelectSeq(remain, LAMBDA f : f.name = name)
  IN IF found = <<>> THEN pair
     ELSE <<Append(hs, found[1]), SelectSeq(remain, LAMBDA f : f.name # name)>>

\* names.reduce(pickField, [[], list])
RECURSIVE reducePick(_, _, _)
reducePick(names, list, n) ==
  IF n = 0 THEN <<<<>>, list>> ELSE pickField(reducePick(names, list, n - 1), names[n])

\* sortFieldOrder with the tail picked from the whole list (mutant)
sortFieldOrderTailFromAll(fs, heads, tails) ==
  LET h == reducePick(heads, fs, Len(heads))
      t == reducePick(tails, fs, Len(tails))
  IN h[1] \o SelectSeq(h[2], LAMBDA f : \A i \in 1..Len(t[1]) : t[1][i].name # f.name) \o t[1]

\* sortFieldOrder that returns the picked fields only (mutant)
sortFieldOrderPickedOnly(fs, heads, tails) ==
  LET h == reducePick(heads, fs, Len(heads))
      t == reducePick(tails, h[2], Len(tails))
  IN h[1] \o t[1]

\* sortFieldOrder that returns the unpicked fields last to first (mutant)
sortFieldOrderRemainReversed(fs, heads, tails) ==
  LET h == reducePick(heads, fs, Len(heads))
      t == reducePick(tails, h[2], Len(tails))
  IN h[1] \o [i \in 1..Len(t[2]) |-> t[2][Len(t[2]) + 1 - i]] \o t[1]

sortFieldOrder(fs, heads, tails) ==
  LET h == reducePick(heads, fs, Len(heads))
      t == reducePick(tails, h[2], Len(tails))
  IN h[1] \o t[2] \o t[1]

(***************************************************************************)
(* Schema.  schema.types is the set of named types, each                   *)
(* [wrappers |-> <<>>, name, kind, fields]; schema.mutation is the field   *)
(* map of the mutation root, or Undefined when the schema has none.        *)
(***************************************************************************)
\* the value undefined returned by schema.getType for an unknown name
UndefinedType == [wrappers |-> <<>>, name |-> <<>>, kind |-> "Undefined", fields |-> <<>>]

\* schema.getType(name)
getType(sch, name) ==
  IF \E t \in sch.types : t.name = name
  THEN CHOOSE t \in sch.types : t.name = name
  ELSE UndefinedType

\* Boolean(mutationFields![name])
hasMutationField(sch, name) == includes(sch.mutation.list, name)

s_insert_input == <<"_","i","n","s","e","r","t","_","i","n","p","u","t">>
s_set_input == <<"_","s","e","t","_","i","n","p","u","t">>
s_pk_columns_input ==
  <<"_","p","k","_","c","o","l","u","m","n","s","_","i","n","p","u","t">>
s_delete == <<"d","e","l","e","t","e","_">>

\* the names one iteration derives from modelName
derivedNames(modelName) ==
  LET fieldName == snake(modelName)
      fieldInsertInputName == snake(fieldName \o s_insert_input)
      fieldSetInputName == snake(fieldName \o s_set_input)
      deleteFieldName == s_delete \o fieldName
      fieldPkColumnsName == snake(fieldName \o s_pk_columns_input)
  IN [fieldName |-> fieldName,
      fieldInsertInputName |-> fieldInsertInputName,
      fieldSetInputName |-> fieldSetInputName,
      deleteFieldName |-> deleteFieldName,
      fieldPkColumnsName |-> fieldPkColumnsName,
      fieldNameCamelCase |-> camel(modelName),
      fieldInsertInputNameCamelCase |-> camel(fieldInsertInputName),
      fieldSetInputNameCamelCase |-> camel(fieldSetInputName),
      deleteFieldNameCamelCase |-> camel(deleteFieldName),
      fieldPkColumnsNameCamelCase |-> camel(fieldPkColumnsName)]

\* the model type probed under the camelCase name first (mutant)
modelTypeOfCamelFirst(sch, names) ==
  IF isObjectType(getType(sch, names.fieldNameCamelCase))
  THEN getType(sch, names.fieldNameCamelCase)
  ELSE getType(sch, names.fieldName)

\* the candidate with the expected kind under the first name, else whatever
\* the second name gives:  isKind(getType(a)) ? getType(a) : getType(b)
modelTypeOf(sch, names) ==
  IF isObjectType(getType(sch, names.fieldName))
  THEN getType(sch, names.fieldName)
  ELSE getType(sch, names.fieldNameCamelCase)

\* the insert-input type probed under the snake_case name only (mutant)
insertInputTypeOfSnakeOnly(sch, names) == getType(sch, names.fieldInsertInputName)

insertInputTypeOf(sch, names) ==
  IF isInputObjectType(getType(sch, names.fieldInsertInputName))
  THEN getType(sch, names.fieldInsertInputName)
  ELSE getType(sch, names.fieldInsertInputNameCamelCase)

setInputTypeOf(sch, names) ==
  IF isInputObjectType(getType(sch, names.fieldSetInputName))
  THEN getType(sch, names.fieldSetInputName)
  ELSE getType(sch, names.fieldSetInputNameCamelCase)

pkInputTypeOf(sch, names) ==
  IF isInputObjectType(getType(sch, names.fieldPkColumnsName))
  THEN getType(sch, names.fieldPkColumnsName)
  ELSE getType(sch, names.fieldPkColumnsNameCamelCase)

\* canDelete that probes only the snake_case name (mutant)
canDeleteSnakeOnly(sch, names) ==
  sch.mutation.defined /\ hasMutationField(sch, names.deleteFieldName)

canDelete(sch, names) ==
  /\ sch.mutation.defined
  /\ \/ hasMutationField(sch, names.deleteFieldName)
     \/ hasMutationField(sch, names.deleteFieldNameCamelCase)

modelSchemasOf(sch, names, opts) ==
  LET type == modelTypeOf(sch, names)
  IN IF isObjectType(type) THEN buildModelSchema(type, opts) ELSE <<>>

insertInputOf(sch, names, opts) ==
  LET type == insertInputTypeOf(sch, names)
  IN IF isInputObjectType(type) THEN buildModelSchema(type, opts) ELSE <<>>

setInputOf(sch, names, opts) ==
  LET type == setInputTypeOf(sch, names)
  IN IF isInputObjectType(type) THEN buildModelSchema(type, opts) ELSE <<>>

\* primaryKeys passed through sortFieldOrder like the other lists (mutant)
primaryKeysOfSorted(sch, names, opts, modelSchemas) ==
  LET type == pkInputTypeOf(sch, names)
  IN sortFieldOrder(
       IF isInputObjectType(type) THEN buildModelSchema(type, opts)
       ELSE SelectSeq(modelSchemas, LAMBDA m : optIncludes(opts.primaryKeyNames, m.name)),
       opts.headFields, opts.tailFields)

\* fallback that keeps every field when primaryKeyNames is undefined (mutant)
primaryKeysOfUndefinedAll(sch, names, opts, modelSchemas) ==
  LET type == pkInputTypeOf(sch, names)
  IN IF isInputObjectType(type) THEN buildModelSchema(type, opts)
     ELSE SelectSeq(modelSchemas,
            LAMBDA m : ~opts.primaryKeyNames.defined
                       \/ optIncludes(opts.primaryKeyNames, m.name))

\* fallback that selects from the unfiltered fields of the model type (mutant)
primaryKeysOfUnfiltered(sch, names, opts, modelSchemas) ==
  LET type == pkInputTypeOf(sch, names)
      mtype == modelTypeOf(sch, names)
      noRules == [opts EXCEPT !.disableFields = Undefined,
                              !.disableFieldPrefixes = Undefined,
                              !.disableFieldSuffixes = Undefined]
  IN IF isInputObjectType(type) THEN buildModelSchema(type, opts)
     ELSE SelectSeq(IF isObjectType(mtype) THEN buildModelSchema(mtype, noRules) ELSE <<>>,
                    LAMBDA m : optIncludes(opts.primaryKeyNames, m.name))

\* primaryKeys that fall back when the pk-input type gives no field (mutant)
primaryKeysOfEmptyFallsBack(sch, names, opts, modelSchemas) ==
  LET type == pkInputTypeOf(sch, names)
      own == IF isInputObjectType(type) THEN buildModelSchema(type, opts) ELSE <<>>
  IN IF own # <<>> THEN own
     ELSE SelectSeq(modelSchemas, LAMBDA m : optIncludes(opts.primaryKeyNames, m.name))

\* fallback that selects from the model list after sortFieldOrder (mutant)
primaryKeysOfFromSorted(sch, names, opts, modelSchemas) ==
  LET type == pkInputTypeOf(sch, names)
  IN IF isInputObjectType(type) THEN buildModelSchema(type, opts)
     ELSE SelectSeq(sortFieldOrder(modelSchemas, opts.headFields, opts.tailFields),
                    LAMBDA m : optIncludes(opts.primaryKeyNames, m.name))

\* primaryKeys, given the list modelSchemas of the same iteration
primaryKeysOf(sch, names, opts, modelSchemas) ==
  LET type == pkInputTypeOf(sch, names)
  IN IF isInputObjectType(type) THEN buildModelSchema(type, opts)
     ELSE SelectSeq(modelSchemas, LAMBDA m : optIncludes(opts.primaryKeyNames, m.name))

\* permissions that tie delete to the model list (mutant)
permissionsDeleteNeedsGet(modelSchemas, insertInput, setInput, canDel) ==
  [get    |-> Len(modelSchemas) > 0,
   insert |-> Len(insertInput) > 0,
   update |-> Len(setInput) > 0,
   delete |-> canDel /\ Len(modelSchemas) > 0]

\* the permissions of the object literal "result"
permissionsOf(modelSchemas, insertInput, setInput, canDel) ==
  [get    |-> Len(modelSchemas) > 0,
   insert |-> Len(insertInput) > 0,
   update |-> Len(setInput) > 0,
   delete |-> canDel]

\* the object literal "result" of one iteration, from the derived names
resultOf(sch, names, opts) ==
  LET modelSchemas == modelSchemasOf(sch, names, opts)
      insertInput == insertInputOf(sch, names, opts)
      setInput == setInputOf(sch, names, opts)
  IN [primaryKeys |-> primaryKeysOf(sch, names, opts, modelSchemas),
      model       |-> sortFieldOrder(modelSchemas, opts.headFields, opts.tailFields),
      insertInput |-> sortFieldOrder(insertInput, opts.headFields, opts.tailFields),
      setInput    |-> sortFieldOrder(setInput, opts.headFields, opts.tailFields),
      permissions |-> permissionsOf(modelSchemas, insertInput, setInput,
                                    canDelete(sch, names))]

\* the model names of the model's calls
m_user == <<"u","s","e","r">>
m_UserRole == <<"U","s","e","r","R","o","l","e">>
ModelNames == {m_user, m_UserRole}

\* lines 52-62 evaluated once per model name
namesTable == [m \in ModelNames |-> derivedNames(m)]

modelResult(sch, modelName, opts) == resultOf(sch, namesTable[modelName], opts)

\* not-found test that lets a pk-input type or a delete mutation count (mutant)
isNotFoundLenient(r) ==
  /\ Len(r.model) = 0 /\ Len(r.insertInput) = 0 /\ Len(r.setInput) = 0
  /\ Len(r.primaryKeys) = 0 /\ ~r.permissions.delete

\* the condition of the throw, on the object literal "result"
isNotFound(r) == Len(r.model) = 0 /\ Len(r.insertInput) = 0 /\ Len(r.setInput) = 0

\* { ...acc, [k]: v }: a map is the list of its entries in insertion order
\* a spread that always adds a new entry at the end (mutant)
spreadAppend(acc, k, v) == Append(acc, [key |-> k, value |-> v])

spread(acc, k, v) ==
  IF \E i \in 1..Len(acc) : acc[i].key = k
  THEN [i \in 1..Len(acc) |-> IF acc[i].key = k THEN [key |-> k, value |-> v] ELSE acc[i]]
  ELSE Append(acc, [key |-> k, value |-> v])

Returned(map) == [threw |-> FALSE, error |-> <<>>, map |-> map]
Thrown(modelName) == [threw |-> TRUE, error |-> modelName, map |-> <<>>]

\* the reducer that skips a model it does not find (mutant)
reduceStepSkip(acc, sch, modelName, opts) ==
  LET r == modelResult(sch, modelName, opts)
  IN IF acc.threw THEN acc
     ELSE IF isNotFound(r) THEN acc
     ELSE Returned(spread(acc.map, modelName, r))

\* one iteration of models.reduce; a throw ends the reduce
reduceStep(acc, sch, modelName, opts) ==
  LET r == modelResult(sch, modelName, opts)
  IN IF acc.threw THEN acc
     ELSE IF isNotFound(r) THEN Thrown(modelName)
     ELSE Returned(spread(acc.map, modelName, r))

RECURSIVE reduceModels(_, _, _, _)
reduceModels(sch, ms, opts, n) ==
  IF n = 0 THEN Returned(<<>>)
  ELSE reduceStep(reduceModels(sch, ms, opts, n - 1), sch, ms[n], opts)

buildModelSchemas(sch, ms, opts) == reduceModels(sch, ms, opts, Len(ms))

\* an initial value kept between calls: the map the last call returned (mutant)
initialValueShared(previous) ==
  IF previous = <<>> \/ previous[Len(previous)].result.threw THEN <<>>
  ELSE previous[Len(previous)].result.map

\* the initial value of the reduce, the literal {} evaluated anew in each
\* call, whatever the previous calls returned
initialValue(previous) == <<>>

\* models.reduce(..., init)
RECURSIVE reduceModelsFrom(_, _, _, _, _)
reduceModelsFrom(init, sch, ms, opts, n) ==
  IF n = 0 THEN Returned(init)
  ELSE reduceStep(reduceModelsFrom(init, sch, ms, opts, n - 1), sch, ms[n], opts)

(***************************************************************************)
(* Inputs.                                                                 *)
(***************************************************************************)
n_id == <<"i","d">>
n__id == <<"_","i","d">>
n_id_ == <<"i","d","_">>
n_uid == <<"u","i","d">>
n_name == <<"n","a","m","e">>
n_role == <<"r","o","l","e">>
n_posts == <<"p","o","s","t","s">>
n_uuid == <<"u","u","i","d">>
n_a == <<"a">>
n_b == <<"b">>
n_c == <<"c">>
n_d == <<"d">>
n_z == <<"z">>
n__ == <<"_">>
n_owner == <<"o","w","n","e","r">>
n_media == <<"m","e","d","i","a">>

Named(name, kind) == [wrappers |-> <<>>, name |-> name, kind |-> kind]
NonNull(t) == [t EXCEPT !.wrappers = <<"NonNull">> \o @]
List(t) == [t EXCEPT !.wrappers = <<"List">> \o @]

t_Int == Named(<<"I","n","t">>, "Scalar")
t_String == Named(<<"S","t","r","i","n","g">>, "Scalar")
t_role_enum == Named(<<"r","o","l","e","_","e","n","u","m">>, "Enum")
t_post == Named(<<"p","o","s","t">>, "Object")
t_post_input == Named(<<"p","o","s","t","_","i","n","p","u","t">>, "InputObject")
t_Node == Named(<<"N","o","d","e">>, "Interface")
t_Media == Named(<<"M","e","d","i","a">>, "Union")

NamedTypes == {t_Int, t_String, t_role_enum, t_post, t_post_input, t_Node, t_Media}

\* wrapper lists graphql-js can build: a non-null wrapper never wraps another
WrapperLists ==
  {w \in SeqsUpTo({"NonNull", "List"}, MaxWrap) :
     \A i \in 1..(Len(w) - 1) : ~(w[i] = "NonNull" /\ w[i + 1] = "NonNull")}

TypeExprs == {[t EXCEPT !.wrappers = w] : t \in NamedTypes, w \in WrapperLists}

Field(name, type) == [name |-> name, type |-> type]
TypeDef(name, kind, fs) == [wrappers |-> <<>>, name |-> name, kind |-> kind, fields |-> fs]

\* the named types a schema of the model is made of
TypeUniverse ==
  { TypeDef(<<"u","s","e","r">>, "Object",
      << Field(n_id, NonNull(t_Int)), Field(n_name, t_String),
         Field(n_posts, NonNull(List(NonNull(t_post)))) >>),
    TypeDef(<<"u","s","e","r">>, "Object",
      << Field(n_posts, NonNull(List(NonNull(t_post)))) >>),
    TypeDef(<<"u","s","e","r","_","i","n","s","e","r","t","_","i","n","p","u","t">>,
      "InputObject", << Field(n_name, t_String), Field(n_id, t_Int),
                        Field(n_posts, List(NonNull(t_post_input))) >>),
    TypeDef(<<"u","s","e","r","I","n","s","e","r","t","I","n","p","u","t">>,
      "InputObject", << Field(n_name, t_String) >>),
    TypeDef(<<"u","s","e","r","_","s","e","t","_","i","n","p","u","t">>,
      "InputObject", << Field(n_name, t_String) >>),
    TypeDef(<<"u","s","e","r","_","s","e","t","_","i","n","p","u","t">>,
      "Object", << Field(n_name, t_String) >>),
    TypeDef(<<"u","s","e","r","S","e","t","I","n","p","u","t">>,
      "InputObject", << Field(n_id, t_Int) >>),
    TypeDef(<<"u","s","e","r","_","p","k","_","c","o","l","u","m","n","s","_","i","n","p","u","t">>,
      "InputObject", << Field(n_id, NonNull(t_Int)) >>),
    TypeDef(<<"u","s","e","r","_","r","o","l","e">>, "Object",
      << Field(n_role, NonNull(t_role_enum)), Field(n_id, NonNull(t_Int)) >>),
    TypeDef(<<"u","s","e","r","_","r","o","l","e">>, "InputObject",
      << Field(n_id, t_Int) >>),
    TypeDef(<<"u","s","e","r","R","o","l","e">>, "Object",
      << Field(n_role, t_role_enum), Field(n_owner, t_Node),
         Field(n_media, List(t_Media)) >>),
    TypeDef(<<"u","s","e","r","_","r","o","l","e","_","i","n","s","e","r","t","_","i","n","p","u","t">>,
      "InputObject", << Field(n_role, t_role_enum) >>),
    TypeDef(<<"u","s","e","r","R","o","l","e","P","k","C","o","l","u","m","n","s","I","n","p","u","t">>,
      "InputObject", << Field(n_id, NonNull(t_Int)), Field(n_role, NonNull(t_role_enum)) >>),
    TypeDef(<<"u","s","e","r","P","k","C","o","l","u","m","n","s","I","n","p","u","t">>,
      "InputObject", << Field(n_uid, NonNull(t_Int)) >>) }

\* field maps of the mutation root
MutationRoots ==
  { Undefined,
    Defined(<< <<"i","n","s","e","r","t","_","u","s","e","r">> >>),
    Defined(<< <<"d","e","l","e","t","e","_","u","s","e","r">>,
               <<"i","n","s","e","r","t","_","u","s","e","r">> >>),
    Defined(<< <<"d","e","l","e","t","e","U","s","e","r">> >>),
    Defined(<< <<"d","e","l","e","t","e","_","u","s","e","r","_","r","o","l","e">> >>),
    Defined(<< <<"d","e","l","e","t","e","U","s","e","r","R","o","l","e">> >>) }

Schemas ==
  { [types |-> ts, mutation |-> mu] :
      ts \in {S \in SUBSET TypeUniverse :
                /\ Cardinality(S) <= MaxTypes
                /\ \A x, y \in S : x.name = y.name => x = y},
      mu \in MutationRoots }

BuildOptions ==
  { [disableFields |-> Undefined, disableFieldPrefixes |-> Undefined,
     disableFieldSuffixes |-> Undefined, primaryKeyNames |-> Undefined,
     headFields |-> <<>>, tailFields |-> <<>>],
    [disableFields |-> Defined(<<n_name>>), disableFieldPrefixes |-> Defined(<<>>),
     disableFieldSuffixes |-> Undefined, primaryKeyNames |-> Defined(<<n_id, n_uuid>>),
     headFields |-> <<n_name>>, tailFields |-> <<n_id>>],
    [disableFields |-> Defined(<<>>), disableFieldPrefixes |-> Defined(<<n_id>>),
     disableFieldSuffixes |-> Defined(<<n__>>), primaryKeyNames |-> Defined(<<n_id>>),
     headFields |-> <<n_role>>, tailFields |-> <<n_role, n_id>>],
    [disableFields |-> Undefined, disableFieldPrefixes |-> Undefined,
     disableFieldSuffixes |-> Defined(<<>>), primaryKeyNames |-> Defined(<<n_id, n_uuid>>),
     headFields |-> <<n_name>>, tailFields |-> <<n_id>>] }

ModelLists == SeqsUpTo(ModelNames, MaxModels) \ {<<>>}

\* rule lists of buildModelSchema's filter
RuleTerms == {n_id, n__}
RuleLists == {Undefined} \cup {Defined(l) : l \in SeqsUpTo(RuleTerms, MaxRules)}
FilterOptions ==
  { [disableFields |-> df, disableFieldPrefixes |-> dp, disableFieldSuffixes |-> ds,
     primaryKeyNames |-> Undefined, headFields |-> <<>>, tailFields |-> <<>>] :
      df \in RuleLists, dp \in RuleLists, ds \in RuleLists }

FilterFieldNames == {n_id, n__id, n_id_, n_uid}
FilterFieldTypes == {NonNull(t_Int), t_post}
FilterTypes ==
  { TypeDef(<<"t">>, "Object", [i \in 1..Len(ns) |-> Field(ns[i], ty[i])]) :
      ns \in DistinctSeqsUpTo(FilterFieldNames, MaxFields), ty \in [1..MaxFields -> FilterFieldTypes] }

\* inputs of sortFieldOrder
SortFieldNames == {n_a, n_b, n_c, n_d}
OrderNames == {n_a, n_c, n_z}
descriptorOf(name) == [seedSchema(name) EXCEPT !.type = t_Int.name]
SortFieldLists ==
  { [i \in 1..Len(ns) |-> descriptorOf(ns[i])] :
      ns \in DistinctSeqsUpTo(SortFieldNames, MaxSortFields) }
OrderLists == SeqsUpTo(OrderNames, MaxOrderNames)

\* values of the variables a specification does not use
Idle == <<>>

(***************************************************************************)
(* Specification Spec: one call of buildModelSchemas.                      *)
(***************************************************************************)
Init ==
  /\ pc = "init"
  /\ schema \in Schemas
  /\ models \in ModelLists
  /\ options \in BuildOptions
  /\ result = Idle
  /\ modelType = Idle /\ fieldList = Idle
  /\ gqlType = Idle /\ key = Idle /\ inner = Idle
  /\ fields = Idle /\ headFields = Idle /\ tailFields = Idle /\ sorted = Idle
  /\ calls = Idle
  /\ loader = Idle /\ question = Idle /\ run = Idle

Build ==
  /\ pc = "init"
  /\ pc' = "done"
  /\ result' = buildModelSchemas(schema, models, options)
  /\ UNCHANGED <<schema, models, options, fieldsVars, unwrapVars, sortVars, calls, cliVars>>

Next == Build

Spec == Init /\ [][Next]_vars

(***************************************************************************)
(* Specification SpecFields: one call of buildModelSchema.                 *)
(***************************************************************************)
InitFields ==
  /\ pc = "init"
  /\ modelType \in FilterTypes
  /\ options \in FilterOptions
  /\ fieldList = Idle
  /\ schema = Idle /\ models = Idle /\ result = Idle
  /\ gqlType = Idle /\ key = Idle /\ inner = Idle
  /\ fields = Idle /\ headFields = Idle /\ tailFields = Idle /\ sorted = Idle
  /\ calls = Idle
  /\ loader = Idle /\ question = Idle /\ run = Idle

BuildFields ==
  /\ pc = "init"
  /\ pc' = "done"
  /\ fieldList' = buildModelSchema(modelType, options)
  /\ UNCHANGED <<modelType, options, schema, models, result, unwrapVars, sortVars, calls, cliVars>>

NextFields == BuildFields

SpecFields == InitFields /\ [][NextFields]_vars

(***************************************************************************)
(* Specification SpecUnwrap: one call of getInnerSchemaType with the seed  *)
(* buildModelSchema passes.                                                *)
(***************************************************************************)
InitUnwrap ==
  /\ pc = "init"
  /\ gqlType \in TypeExprs
  /\ key \in {n_id, n_name}
  /\ inner = Idle
  /\ schema = Idle /\ models = Idle /\ options = Idle /\ result = Idle
  /\ modelType = Idle /\ fieldList = Idle
  /\ fields = Idle /\ headFields = Idle /\ tailFields = Idle /\ sorted = Idle
  /\ calls = Idle
  /\ loader = Idle /\ question = Idle /\ run = Idle

Unwrap ==
  /\ pc = "init"
  /\ pc' = "done"
  /\ inner' = getInnerSchemaType(gqlType, seedSchema(key))
  /\ UNCHANGED <<gqlType, key, buildVars, fieldsVars, sortVars, calls, cliVars>>

NextUnwrap == Unwrap

SpecUnwrap == InitUnwrap /\ [][NextUnwrap]_vars

(***************************************************************************)
(* Specification SpecSort: one call of sortFieldOrder.                     *)
(***************************************************************************)
InitSort ==
  /\ pc = "init"
  /\ fields \in SortFieldLists
  /\ headFields \in OrderLists
  /\ tailFields \in OrderLists
  /\ sorted = Idle
  /\ schema = Idle /\ models = Idle /\ options = Idle /\ result = Idle
  /\ modelType = Idle /\ fieldList = Idle
  /\ gqlType = Idle /\ key = Idle /\ inner = Idle
  /\ calls = Idle
  /\ loader = Idle /\ question = Idle /\ run = Idle

\* a sortFieldOrder that picks by removing from the list it was handed, so
\* that the caller's list is left with the unpicked fields (mutant)
SortSplice ==
  /\ pc = "init"
  /\ pc' = "done"
  /\ sorted' = sortFieldOrder(fields, headFields, tailFields)
  /\ fields' = reducePick(tailFields,
                          reducePick(headFields, fields, Len(headFields))[2],
                          Len(tailFields))[2]
  /\ UNCHANGED <<headFields, tailFields, buildVars, fieldsVars, unwrapVars, calls, cliVars>>

Sort ==
  /\ pc = "init"
  /\ pc' = "done"
  /\ sorted' = sortFieldOrder(fields, headFields, tailFields)
  /\ UNCHANGED <<fields, headFields, tailFields, buildVars, fieldsVars, unwrapVars, calls, cliVars>>

NextSort == Sort

SpecSort == InitSort /\ [][NextSort]_vars

(***************************************************************************)
(* Specification SpecFrame: a run that is either one call of               *)
(* buildModelSchemas or one call of sortFieldOrder, on the arguments Init  *)
(* or InitSort prepared.                                                   *)
(***************************************************************************)
InitFrame == Init \/ InitSort

NextFrame ==
  \/ models # Idle /\ Build
  \/ models = Idle /\ Sort

SpecFrame == InitFrame /\ [][NextFrame]_vars

(***************************************************************************)
(* Specification SpecCalls: a run of several calls of buildModelSchemas on *)
(* one schema, with model names and options chosen anew for each call.     *)
(***************************************************************************)
CallSchemas ==
  {s \in Schemas : /\ s.mutation = Undefined
                   /\ \A t \in s.types : t.kind = "Object"}
CallModelLists ==
  {<<m_user>>, <<m_UserRole>>, <<m_user, m_UserRole>>, <<m_UserRole, m_user>>}
CallOptions == {o \in BuildOptions : ~o.disableFields.defined}

InitCalls ==
  /\ pc = "init"
  /\ schema \in CallSchemas
  /\ calls = <<>>
  /\ loader = Idle /\ question = Idle /\ run = Idle
  /\ models = Idle /\ options = Idle /\ result = Idle
  /\ modelType = Idle /\ fieldList = Idle
  /\ gqlType = Idle /\ key = Idle /\ inner = Idle
  /\ fields = Idle /\ headFields = Idle /\ tailFields = Idle /\ sorted = Idle

Call(ms, opts) ==
  /\ Len(calls) < MaxCalls
  /\ pc' = "done"
  /\ models' = ms
  /\ options' = opts
  /\ result' = reduceModelsFrom(initialValue(calls), schema, ms, opts, Len(ms))
  /\ calls' = Append(calls, [models |-> ms, options |-> opts, result |-> result'])
  /\ UNCHANGED <<schema, fieldsVars, unwrapVars, sortVars, cliVars>>

NextCalls == \E ms \in CallModelLists, opts \in CallOptions : Call(ms, opts)

SpecCalls == InitCalls /\ [][NextCalls]_vars

(***************************************************************************)
(* Specification SpecKeys: one call of buildModelSchemas for the model     *)
(* user, on schemas that differ in the model type and the pk-input type.   *)
(***************************************************************************)
KeyTypes ==
  { TypeDef(<<"u","s","e","r">>, "Object",
      << Field(n_uuid, NonNull(t_String)), Field(n_id, NonNull(t_Int)),
         Field(n_name, t_String) >>),
    TypeDef(<<"u","s","e","r">>, "Object",
      << Field(n_id, NonNull(t_Int)), Field(n_name, t_String),
         Field(n_posts, NonNull(List(NonNull(t_post)))) >>),
    TypeDef(<<"u","s","e","r","_","p","k","_","c","o","l","u","m","n","s","_","i","n","p","u","t">>,
      "InputObject", << Field(n_name, t_String) >>),
    TypeDef(<<"u","s","e","r","_","p","k","_","c","o","l","u","m","n","s","_","i","n","p","u","t">>,
      "InputObject", << Field(n_posts, List(NonNull(t_post_input))) >>),
    TypeDef(<<"u","s","e","r","_","p","k","_","c","o","l","u","m","n","s","_","i","n","p","u","t">>,
      "InputObject", << Field(n_uuid, NonNull(t_String)), Field(n_id, NonNull(t_Int)) >>),
    TypeDef(<<"u","s","e","r","P","k","C","o","l","u","m","n","s","I","n","p","u","t">>,
      "InputObject", << Field(n_name, t_String), Field(n_posts, List(NonNull(t_post_input))) >>),
    TypeDef(<<"u","s","e","r","_","i","n","s","e","r","t","_","i","n","p","u","t">>,
      "InputObject", << Field(n_name, t_String), Field(n_id, t_Int) >>) }

KeySchemas ==
  { [types |-> ts, mutation |-> Undefined] :
      ts \in {S \in SUBSET KeyTypes :
                /\ Cardinality(S) <= MaxTypes
                /\ \A x, y \in S : x.name = y.name => x = y} }

KeyOptions ==
  { [disableFields |-> Defined(<<n_name>>), disableFieldPrefixes |-> Undefined,
     disableFieldSuffixes |-> Undefined, primaryKeyNames |-> Defined(<<n_id, n_uuid>>),
     headFields |-> <<n_id>>, tailFields |-> <<>>],
    [disableFields |-> Undefined, disableFieldPrefixes |-> Undefined,
     disableFieldSuffixes |-> Undefined, primaryKeyNames |-> Defined(<<n_id, n_uuid>>),
     headFields |-> <<>>, tailFields |-> <<n_uuid>>],
    [disableFields |-> Undefined, disableFieldPrefixes |-> Defined(<<n_name>>),
     disableFieldSuffixes |-> Defined(<<n_id>>), primaryKeyNames |-> Defined(<<n_id>>),
     headFields |-> <<n_name>>, tailFields |-> <<>>],
    [disableFields |-> Undefined, disableFieldPrefixes |-> Undefined,
     disableFieldSuffixes |-> Undefined, primaryKeyNames |-> Undefined,
     headFields |-> <<n_id>>, tailFields |-> <<n_name>>] }

InitKeys ==
  /\ pc = "init"
  /\ schema \in KeySchemas
  /\ models = <<m_user>>
  /\ options \in KeyOptions
  /\ result = Idle
  /\ modelType = Idle /\ fieldList = Idle
  /\ gqlType = Idle /\ key = Idle /\ inner = Idle
  /\ fields = Idle /\ headFields = Idle /\ tailFields = Idle /\ sorted = Idle
  /\ calls = Idle
  /\ loader = Idle /\ question = Idle /\ run = Idle

NextKeys == Build

SpecKeys == InitKeys /\ [][NextKeys]_vars

(***************************************************************************)
(* Configuration loader: the part of bootstrap that reads the schema entry *)
(* of the parsed configuration.  A parsed value is                         *)
(* a record whose field type is what typeof gives.                         *)
(***************************************************************************)
JsValue(type, isArray, isNull) ==
  [type |-> type, isArray |-> isArray, isNull |-> isNull,
   str |-> "", num |-> 0, bool |-> FALSE, items |-> <<>>]
JsUndefined == JsValue("undefined", FALSE, FALSE)
JsNull == JsValue("object", FALSE, TRUE)
JsString(x) == [JsValue("string", FALSE, FALSE) EXCEPT !.str = x]
JsNumber(x) == [JsValue("number", FALSE, FALSE) EXCEPT !.num = x]
JsBoolean(x) == [JsValue("boolean", FALSE, FALSE) EXCEPT !.bool = x]
JsObject == JsValue("object", FALSE, FALSE)
JsArray(x) == [JsValue("object", TRUE, FALSE) EXCEPT !.items = x]

\* the truthiness the condition  if (configYaml.schema)  tests
truthy(v) ==
  CASE v.type = "undefined" -> FALSE
    [] v.type = "string" -> v.str # ""
    [] v.type = "number" -> v.num # 0
    [] v.type = "boolean" -> v.bool
    [] OTHER -> ~v.isNull

\* headers of a schema entry; "" is a key that is missing or empty
NoHeaders == [defined |-> FALSE, adminSecret |-> "", role |-> ""]
HeadersOf(secret, role) == [defined |-> TRUE, adminSecret |-> secret, role |-> role]

\* defaultConfigs; "" is a key that is not set
EmptyConfigs ==
  [url |-> "", headers |-> NoHeaders, method |-> "", adminSecret |-> "", role |-> ""]

ConfigLoaded(dc) == [threw |-> FALSE, error |-> "", got |-> "", defaultConfigs |-> dc]
ConfigFailed(e, got) ==
  [threw |-> TRUE, error |-> e, got |-> got, defaultConfigs |-> EmptyConfigs]

invalidSchemaConfig == "invalid schema config, expected string or array object"

\* the case "object" of the switch, for an array v
loadSchemaArray(v, dc) ==
  IF v.items = <<>> THEN ConfigFailed("TypeError", "")
  ELSE LET schemaConfig == v.items[1]
           h == schemaConfig.headers
           withEntry == [dc EXCEPT !.url = schemaConfig.url,
                                   !.headers = h,
                                   !.method = IF schemaConfig.method # ""
                                              THEN schemaConfig.method ELSE "POST"]
           withSecret == IF h.defined /\ h.adminSecret # ""
                         THEN [withEntry EXCEPT !.adminSecret = h.adminSecret]
                         ELSE withEntry
       IN ConfigLoaded(IF h.defined /\ h.role # ""
                       THEN [withSecret EXCEPT !.role = h.role]
                       ELSE withSecret)

\* if (configYaml.schema) { switch (typeof configYaml.schema) ... }
loadSchemaConfig(v, dc) ==
  IF ~truthy(v) THEN ConfigLoaded(dc)
  ELSE CASE v.type = "string" -> ConfigLoaded([dc EXCEPT !.url = v.str])
         [] v.type = "object" ->
              IF ~v.isArray THEN ConfigFailed(invalidSchemaConfig, "object")
              ELSE loadSchemaArray(v, dc)
         [] OTHER -> ConfigFailed(invalidSchemaConfig, v.type)

\* the names of the shared questions that are asked
sharedQuestions(dc) ==
  (IF dc.url = "" THEN {"url"} ELSE {})
  \cup (IF dc.adminSecret = "" THEN {"adminSecret"} ELSE {})
  \cup (IF dc.role = "" THEN {"role"} ELSE {})
  \cup {"models"}

(***************************************************************************)
(* Specification SpecConfig: one run of bootstrap, from the parsed         *)
(* configuration to the fetch of the schema.                               *)
(***************************************************************************)
SchemaEntries ==
  { [url |-> "http://h", headers |-> h, method |-> m] :
      h \in {NoHeaders, HeadersOf("", ""), HeadersOf("s3", ""), HeadersOf("", "user"),
             HeadersOf("s3", "user")},
      m \in {"", "GET"} }

ConfigSchemaValues ==
  {JsUndefined, JsNull, JsString(""), JsString("http://s"),
   JsNumber(0), JsNumber(8080), JsBoolean(FALSE), JsBoolean(TRUE),
   JsObject, JsArray(<<>>)}
  \cup {JsArray(<<e>>) : e \in SchemaEntries}

HasuraConfigs ==
  {EmptyConfigs,
   [EmptyConfigs EXCEPT !.url = "http://d"],
   [EmptyConfigs EXCEPT !.url = "http://d", !.adminSecret = "d3", !.role = "admin"]}

ActionChoices == {"graphql", "template", "all"}

InitConfig ==
  /\ pc = "init"
  /\ loader \in { [schema |-> v, defaultConfigs |-> dc, error |-> "", got |-> "",
                   prompts |-> <<>>, action |-> "", url |-> "", fetched |-> FALSE] :
                  v \in ConfigSchemaValues, dc \in HasuraConfigs }
  /\ question = Idle /\ run = Idle
  /\ schema = Idle /\ models = Idle /\ options = Idle /\ result = Idle
  /\ modelType = Idle /\ fieldList = Idle
  /\ gqlType = Idle /\ key = Idle /\ inner = Idle
  /\ fields = Idle /\ headFields = Idle /\ tailFields = Idle /\ sorted = Idle
  /\ calls = Idle

cliFrame ==
  UNCHANGED <<buildVars, fieldsVars, unwrapVars, sortVars, calls>>

LoadConfig ==
  /\ pc = "init"
  /\ LET r == loadSchemaConfig(loader.schema, loader.defaultConfigs)
     IN IF r.threw
        THEN /\ pc' = "failed"
             /\ loader' = [loader EXCEPT !.error = r.error, !.got = r.got]
        ELSE /\ pc' = "loaded"
             /\ loader' = [loader EXCEPT !.defaultConfigs = r.defaultConfigs]
  /\ UNCHANGED <<question, run>>
  /\ cliFrame

\* prompt(actionQuestions)
PromptAction(a) ==
  /\ pc = "loaded"
  /\ pc' = "action"
  /\ loader' = [loader EXCEPT !.prompts = Append(@, {"action"}), !.action = a]
  /\ UNCHANGED <<question, run>>
  /\ cliFrame

\* prompt(questions); answer is what the user types for the endpoint
PromptQuestions(answer) ==
  /\ pc = "action"
  /\ pc' = "answered"
  /\ LET asked == sharedQuestions(loader.defaultConfigs)
     IN loader' = [loader EXCEPT
                     !.prompts = Append(@, asked),
                     !.url = IF "url" \in asked THEN answer
                             ELSE loader.defaultConfigs.url]
  /\ UNCHANGED <<question, run>>
  /\ cliFrame

\* generate: loadSchema(url, ...)
FetchSchema ==
  /\ pc = "answered"
  /\ pc' = "fetched"
  /\ loader' = [loader EXCEPT !.fetched = TRUE]
  /\ UNCHANGED <<question, run>>
  /\ cliFrame

NextConfig ==
  \/ LoadConfig
  \/ \E a \in ActionChoices : PromptAction(a)
  \/ \E answer \in {"http://a", "http://b"} : PromptQuestions(answer)
  \/ FetchSchema

SpecConfig == InitConfig /\ [][NextConfig]_vars

(***************************************************************************)
(* Prompt validation of the name-list questions.                           *)
(***************************************************************************)
DigitSet == {"0","1","2","3","4","5","6","7","8","9"}

\* the class \w
isWordChar(c) == c \in LowerSet \cup UpperSet \cup DigitSet \cup {"_"}

\* s is in the language of  \w+
matchesWord(s) == s # <<>> /\ \A i \in 1..Len(s) : isWordChar(s[i])

\* s is in the language of  \w+(,\w+)?
matchesPattern(s) ==
  \/ matchesWord(s)
  \/ \E k \in 1..Len(s) :
       /\ s[k] = ","
       /\ matchesWord(SubSeq(s, 1, k - 1))
       /\ matchesWord(SubSeq(s, k + 1, Len(s)))

\* PATTERN_NAMES_WITH_COMMA.test(value): the pattern has no anchor, so a
\* match may start and stop anywhere in value
testPattern(value) ==
  \E i \in 1..Len(value) : \E j \in i..Len(value) :
    matchesPattern(SubSeq(value, i, j))

Accepted == [ok |-> TRUE, message |-> ""]
Rejected(message) == [ok |-> FALSE, message |-> message]

\* validate(value) of the question called name
validateNames(name, value) ==
  IF name = "models"
  THEN IF value = <<>> \/ ~testPattern(value)
       THEN Rejected("models value is empty or in invalid format")
       ELSE Accepted
  ELSE IF value # <<>> /\ ~testPattern(value)
       THEN Rejected("format is invalid")
       ELSE Accepted

(***************************************************************************)
(* Specification SpecPrompt: the validation of one answer.                 *)
(***************************************************************************)
QuestionNames ==
  {"models", "disableFields", "disableFieldPrefixes", "disableFieldSuffixes",
   "primaryKeyNames", "headFields", "tailFields"}
AnswerChars == {"a", "_", ",", " "}
Answers == SeqsUpTo(AnswerChars, MaxAnswerLen)

InitPrompt ==
  /\ pc = "init"
  /\ question \in { [name |-> n, answer |-> a, verdict |-> Accepted] :
                    n \in QuestionNames, a \in Answers }
  /\ loader = Idle /\ run = Idle
  /\ schema = Idle /\ models = Idle /\ options = Idle /\ result = Idle
  /\ modelType = Idle /\ fieldList = Idle
  /\ gqlType = Idle /\ key = Idle /\ inner = Idle
  /\ fields = Idle /\ headFields = Idle /\ tailFields = Idle /\ sorted = Idle
  /\ calls = Idle

Validate ==
  /\ pc = "init"
  /\ pc' = "done"
  /\ question' = [question EXCEPT !.verdict = validateNames(question.name, question.answer)]
  /\ UNCHANGED <<loader, run>>
  /\ cliFrame

NextPrompt == Validate

SpecPrompt == InitPrompt /\ [][NextPrompt]_vars

(***************************************************************************)
(* generate: the steps of one run.  run.files[i] is the progress of the    *)
(* i-th call of genGraphQL, run.renders[i] that of the i-th call of        *)
(* renderTemplate; both kinds of call go on after generate has rejected.   *)
(***************************************************************************)
parseActions(action) ==
  IF action = "all" THEN <<"graphql", "template">> ELSE <<action>>

\* actions.includes(step)
selected(actions, step) == \E i \in 1..Len(actions) : actions[i] = step

\* the calls of genGraphQL of one run: one for all models, or one per model
graphqlCalls(ms, separateFiles) ==
  IF ~separateFiles THEN <<ms>> ELSE [i \in 1..Len(ms) |-> <<ms[i]>>]

\* an await that resumes when the first promise is fulfilled (mutant)
allFulfilledFirstOnly(progress, fulfilled) ==
  progress = <<>> \/ progress[1] = fulfilled

\* await genGraphQL(models), await Promise.all([...]): resumes when every
\* promise is fulfilled
allFulfilled(progress, fulfilled) ==
  \A i \in 1..Len(progress) : progress[i] = fulfilled

\* a rejected promise makes the await throw
someRejected(progress) == \E i \in 1..Len(progress) : progress[i] = "failed"

(***************************************************************************)
(* Specification SpecGenerate: one run of generate.                        *)
(***************************************************************************)
GenerateModelLists == {<<m_user>>, <<m_user, m_UserRole>>}

InitGenerate ==
  /\ pc = "start"
  /\ run \in { [action |-> a, actions |-> parseActions(a), separateFiles |-> sf,
                models |-> ms, files |-> <<>>, template |-> "idle",
                renders |-> <<>>, log |-> <<"rendering files...">>] :
               a \in ActionChoices, sf \in BOOLEAN, ms \in GenerateModelLists }
  /\ loader = Idle /\ question = Idle
  /\ schema = Idle /\ models = Idle /\ options = Idle /\ result = Idle
  /\ modelType = Idle /\ fieldList = Idle
  /\ gqlType = Idle /\ key = Idle /\ inner = Idle
  /\ fields = Idle /\ headFields = Idle /\ tailFields = Idle /\ sorted = Idle
  /\ calls = Idle

runFrame ==
  /\ UNCHANGED <<loader, question>>
  /\ cliFrame

\* await loadSchema(url, ...)
LoadSchema(ok) ==
  /\ pc = "start"
  /\ pc' = IF ok THEN "loaded" ELSE "failed"
  /\ UNCHANGED run
  /\ runFrame

\* if (actions.includes("graphql")): every genGraphQL call runs up to its
\* await codegen(config)
EnterGraphQL ==
  /\ pc = "loaded"
  /\ IF selected(run.actions, "graphql")
     THEN /\ pc' = "graphql"
          /\ run' = [run EXCEPT !.files =
                       [i \in 1..Len(graphqlCalls(run.models, run.separateFiles)) |-> "codegen"]]
     ELSE /\ pc' = "graphqlDone"
          /\ UNCHANGED run
  /\ runFrame

\* codegen resolves and writeFileSync writes the file, or one of them throws
FinishFile(i, ok) ==
  /\ i \in 1..Len(run.files)
  /\ run.files[i] = "codegen"
  /\ run' = [run EXCEPT !.files[i] = IF ok THEN "written" ELSE "failed"]
  /\ UNCHANGED pc
  /\ runFrame

AwaitGraphQL ==
  /\ pc = "graphql"
  /\ \/ allFulfilled(run.files, "written") /\ pc' = "graphqlDone"
     \/ someRejected(run.files) /\ pc' = "failed"
  /\ UNCHANGED run
  /\ runFrame

\* if (actions.includes("template")): up to await codegen(config)
EnterTemplate ==
  /\ pc = "graphqlDone"
  /\ IF selected(run.actions, "template")
     THEN /\ pc' = "template"
          /\ run' = [run EXCEPT !.template = "codegen"]
     ELSE /\ pc' = "report"
          /\ UNCHANGED run
  /\ runFrame

\* codegen resolves and one renderTemplate is called per key of modelSchemas,
\* which has one key for each of the distinct names of run.models
StartRender(ok) ==
  /\ pc = "template"
  /\ IF ok
     THEN /\ pc' = "render"
          /\ run' = [run EXCEPT !.template = "rendering",
                                !.renders = [i \in 1..Len(run.models) |-> "rendering"]]
     ELSE /\ pc' = "failed"
          /\ run' = [run EXCEPT !.template = "failed"]
  /\ runFrame

FinishRender(i, ok) ==
  /\ i \in 1..Len(run.renders)
  /\ run.renders[i] = "rendering"
  /\ run' = [run EXCEPT !.renders[i] = IF ok THEN "rendered" ELSE "failed"]
  /\ UNCHANGED pc
  /\ runFrame

AwaitRender ==
  /\ pc = "render"
  /\ \/ /\ allFulfilled(run.renders, "rendered")
        /\ pc' = "report"
        /\ run' = [run EXCEPT !.template = "done"]
     \/ /\ someRejected(run.renders)
        /\ pc' = "failed"
        /\ run' = [run EXCEPT !.template = "failed"]
  /\ runFrame

\* console.log("Outputs generated!")
Report ==
  /\ pc = "report"
  /\ pc' = "done"
  /\ run' = [run EXCEPT !.log = Append(@, "Outputs generated!")]
  /\ runFrame

NextGenerate ==
  \/ \E ok \in BOOLEAN : LoadSchema(ok)
  \/ EnterGraphQL
  \/ \E i \in 1..MaxModels, ok \in BOOLEAN : FinishFile(i, ok)
  \/ AwaitGraphQL
  \/ EnterTemplate
  \/ \E ok \in BOOLEAN : StartRender(ok)
  \/ \E i \in 1..MaxModels, ok \in BOOLEAN : FinishRender(i, ok)
  \/ AwaitRender
  \/ Report

SpecGenerate == InitGenerate /\ [][NextGenerate]_vars

(***************************************************************************)
(* Properties.                                                             *)
(***************************************************************************)
namesOf(list) == [i \in 1..Len(list) |-> list[i].name]

\* the three filtered field lists of a requested model are all empty
AllThreeEmpty(m) ==
  /\ Len(modelSchemasOf(schema, namesTable[m], options)) = 0
  /\ Len(insertInputOf(schema, namesTable[m], options)) = 0
  /\ Len(setInputOf(schema, namesTable[m], options)) = 0

\* C1: the call fails, with an error naming a model whose three filtered
\* lists are empty, if and only if some requested model has its model,
\* insertInput and setInput lists all empty; a pk-input type or a delete
\* mutation does not save a model, one non-empty list always does.
C1_FailsIffAllThreeEmpty ==
  pc = "done" =>
    /\ result.threw <=> \E i \in 1..Len(models) : AllThreeEmpty(models[i])
    /\ result.threw => /\ result.error \in Range(models)
                       /\ AllThreeEmpty(result.error)

\* a model that resolves a pk-input type and a delete mutation, and no field
\* list, has failed
C1_Witness ==
  /\ pc = "done"
  /\ models = <<m_user>>
  /\ result.threw
  /\ result.error = m_user
  /\ canDelete(schema, namesTable[m_user])
  /\ Len(primaryKeysOf(schema, namesTable[m_user], options, <<>>)) > 0

\* C2: when some requested model fails the not-found rule the call throws,
\* the caller receives no map, and the error names the first failing model
\* in caller order.
C2_FailFastFirstFailing ==
  pc = "done" =>
    \A i \in 1..Len(models) :
      (AllThreeEmpty(models[i]) /\ \A j \in 1..(i - 1) : ~AllThreeEmpty(models[j]))
        => /\ result.threw
           /\ result.map = <<>>
           /\ result.error = models[i]

\* the first model resolves, the second does not
C2_Witness ==
  /\ pc = "done"
  /\ Len(models) = 2
  /\ models[1] # models[2]
  /\ ~AllThreeEmpty(models[1])
  /\ AllThreeEmpty(models[2])
  /\ result.threw
  /\ result.error = models[2]

\* C3: in every returned descriptor get, insert and update tell whether the
\* model, insertInput and setInput lists are non-empty, and delete equals
\* canDelete whatever the other three are.
C3_PermissionsDerived ==
  (pc = "done" /\ ~result.threw) =>
    \A i \in 1..Len(result.map) :
      LET d == result.map[i].value
      IN /\ d.permissions.get = (Len(d.model) > 0)
         /\ d.permissions.insert = (Len(d.insertInput) > 0)
         /\ d.permissions.update = (Len(d.setInput) > 0)
         /\ d.permissions.delete = canDelete(schema, namesTable[result.map[i].key])

\* a model type only, and a delete mutation: {get, delete} and nothing else
C3_Witness ==
  /\ pc = "done"
  /\ ~result.threw
  /\ \E i \in 1..Len(result.map) :
       result.map[i].value.permissions =
         [get |-> TRUE, insert |-> FALSE, update |-> FALSE, delete |-> TRUE]

\* delete_<base> and its camelCase form, written out for the model names
DeleteNames(m) ==
  IF m = m_user
  THEN { <<"d","e","l","e","t","e","_","u","s","e","r">>,
         <<"d","e","l","e","t","e","U","s","e","r">> }
  ELSE { <<"d","e","l","e","t","e","_","u","s","e","r","_","r","o","l","e">>,
         <<"d","e","l","e","t","e","U","s","e","r","R","o","l","e">> }

HasDeleteMutation(m) ==
  schema.mutation.defined /\ Range(schema.mutation.list) \cap DeleteNames(m) # {}

\* C4: canDelete is true exactly when the schema has a mutation root with a
\* field delete_<base> or its camelCase form; without a mutation root it is
\* false and the call fails only by the not-found rule.
C4_CanDeleteIffMutationField ==
  pc = "done" =>
    /\ \A i \in 1..Len(models) :
         canDelete(schema, namesTable[models[i]]) = HasDeleteMutation(models[i])
    /\ ~result.threw =>
         \A i \in 1..Len(result.map) :
           result.map[i].value.permissions.delete = HasDeleteMutation(result.map[i].key)
    /\ ~schema.mutation.defined =>
         /\ \A i \in 1..Len(result.map) : ~result.map[i].value.permissions.delete
         /\ result.threw => AllThreeEmpty(result.error)

\* the camelCase delete field alone gives the delete permission
C4_Witness ==
  /\ pc = "done"
  /\ ~result.threw
  /\ models = <<m_UserRole>>
  /\ schema.mutation = Defined(<< <<"d","e","l","e","t","e","U","s","e","r","R","o","l","e">> >>)
  /\ result.map[1].value.permissions.delete

\* name equals term / begins with term / ends with term, character by character
EqualsTerm(name, term) ==
  Len(name) = Len(term) /\ \A j \in 1..Len(term) : name[j] = term[j]
BeginsWith(name, term) ==
  Len(term) <= Len(name) /\ \A j \in 1..Len(term) : name[j] = term[j]
EndsWithTerm(name, term) ==
  Len(term) <= Len(name) /\
  \A j \in 1..Len(term) : name[Len(name) - Len(term) + j] = term[j]
ContainsTerm(name, term) ==
  \E k \in 0..(Len(name) - Len(term)) : \A j \in 1..Len(term) : name[k + j] = term[j]

ExcludedByRules(name, opts) ==
  \/ opts.disableFields.defined /\
       \E t \in Range(opts.disableFields.list) : EqualsTerm(name, t)
  \/ opts.disableFieldPrefixes.defined /\
       \E t \in Range(opts.disableFieldPrefixes.list) : BeginsWith(name, t)
  \/ opts.disableFieldSuffixes.defined /\
       \E t \in Range(opts.disableFieldSuffixes.list) : EndsWithTerm(name, t)

\* the innermost named type is an object or an input object
NotLeaf(type) == type.kind \in {"Object", "InputObject"}

RECURSIVE Dedup(_)
Dedup(s) ==
  IF s = <<>> THEN <<>>
  ELSE LET front == Dedup(SubSeq(s, 1, Len(s) - 1))
       IN IF s[Len(s)] \in Range(front) THEN front ELSE Append(front, s[Len(s)])

\* the field of list called name
FieldNamed(list, name) == list[CHOOSE i \in 1..Len(list) : list[i].name = name]

\* head names that match a field, tail names that match a field the head did
\* not take
HeadMatched == SelectSeq(Dedup(headFields), LAMBDA n : n \in Range(namesOf(fields)))
TailMatched ==
  SelectSeq(Dedup(tailFields),
            LAMBDA n : n \in Range(namesOf(fields)) /\ n \notin Range(headFields))

ExpectedOrder ==
  [i \in 1..Len(HeadMatched) |-> FieldNamed(fields, HeadMatched[i])]
  \o SelectSeq(fields, LAMBDA f : f.name \notin Range(HeadMatched) \cup Range(TailMatched))
  \o [i \in 1..Len(TailMatched) |-> FieldNamed(fields, TailMatched[i])]

\* C6: sortFieldOrder gives the fields matched by headFields in headFields
\* order, then the unmatched fields in their original order, then the fields
\* matched by tailFields (against what the head left) in tailFields order;
\* names that match no field are skipped; [a,b,c,d] with head [c] and tail
\* [a,z] gives [c,b,d,a].
C6_HeadRemainTail ==
  pc = "done" =>
    /\ sorted = ExpectedOrder
    /\ (namesOf(fields) = <<n_a, n_b, n_c, n_d>> /\ headFields = <<n_c>>
          /\ tailFields = <<n_a, n_z>>)
         => namesOf(sorted) = <<n_c, n_b, n_d, n_a>>

C6_Witness ==
  /\ pc = "done"
  /\ namesOf(fields) = <<n_a, n_b, n_c, n_d>>
  /\ headFields = <<n_c>>
  /\ tailFields = <<n_a, n_z>>
  /\ namesOf(sorted) = <<n_c, n_b, n_d, n_a>>

\* C7: a field named in both headFields and tailFields appears exactly once
\* in the ordered list, within the head segment.
C7_HeadWinsOverTail ==
  pc = "done" =>
    \A n \in Range(headFields) \cap Range(tailFields) \cap Range(namesOf(fields)) :
      /\ Cardinality({i \in 1..Len(sorted) : sorted[i].name = n}) = 1
      /\ \A i \in 1..Len(sorted) :
           sorted[i].name = n =>
             i <= Cardinality(Range(headFields) \cap Range(namesOf(fields)))

\* c is in both lists and comes first; the tail holds only a
C7_Witness ==
  /\ pc = "done"
  /\ namesOf(fields) = <<n_a, n_b, n_c>>
  /\ headFields = <<n_c>>
  /\ tailFields = <<n_c, n_a>>
  /\ namesOf(sorted) = <<n_c, n_b, n_a>>

\* C8: a type without wrappers gives array = false, nullable = true and the
\* type's name; isEnum is true exactly for an enum innermost type.
C8_BareTypeAndEnum ==
  pc = "done" =>
    /\ (gqlType.wrappers = <<>> /\ gqlType.kind \in {"Scalar", "Enum"}) =>
         /\ inner # Null
         /\ inner.name = key
         /\ inner.array = FALSE
         /\ inner.nullable = TRUE
         /\ inner.type = gqlType.name
    /\ inner # Null => (inner.isEnum <=> gqlType.kind = "Enum")
    /\ gqlType.kind = "Scalar" => (inner # Null /\ ~inner.isEnum)

C8_Witness ==
  /\ pc = "done"
  /\ gqlType = t_role_enum
  /\ inner = [name |-> key, type |-> t_role_enum.name, array |-> FALSE,
              nullable |-> TRUE, isEnum |-> TRUE]

\* C9: around a scalar or an enum, wrappers in any order and depth are all
\* stripped, type is the innermost name and array is true exactly when a
\* list wrapper occurs somewhere; [Int!]! gives {Int, array, not nullable}.
C9_WrappersStripped ==
  pc = "done" =>
    /\ gqlType.kind \in {"Scalar", "Enum"} =>
         /\ inner # Null
         /\ inner.type = gqlType.name
         /\ inner.array <=> "List" \in Range(gqlType.wrappers)
    /\ gqlType = NonNull(List(NonNull(t_Int))) =>
         inner = [name |-> key, type |-> t_Int.name, array |-> TRUE,
                  nullable |-> FALSE, isEnum |-> FALSE]

C9_Witness ==
  /\ pc = "done"
  /\ gqlType = NonNull(List(NonNull(t_Int)))
  /\ inner.type = t_Int.name
  /\ inner.array
  /\ ~inner.nullable

\* C10: nullable is true unless the outermost wrapper of the declared type
\* is a non-null wrapper; a non-null wrapper inside a list wrapper leaves
\* nullable true.
C10_NullableByOutermostWrapper ==
  (pc = "done" /\ inner # Null) =>
    (inner.nullable <=> ~(gqlType.wrappers # <<>> /\ gqlType.wrappers[1] = "NonNull"))


(***************************************************************************)
(* Properties of the returned descriptors.                                 *)
(***************************************************************************)
\* the type each list of the descriptor of model m is built from
ModelTypeFor(m) == modelTypeOf(schema, namesTable[m])
InsertTypeFor(m) == insertInputTypeOf(schema, namesTable[m])
SetTypeFor(m) == setInputTypeOf(schema, namesTable[m])
PkTypeFor(m) == pkInputTypeOf(schema, namesTable[m])
PkResolves(m) == PkTypeFor(m).kind = "InputObject"
PrimaryKeySourceFor(m) == IF PkResolves(m) THEN PkTypeFor(m) ELSE ModelTypeFor(m)

\* names of the fields of type whose innermost named type has one of kinds
FieldNamesOfKind(type, kinds) ==
  {type.fields[i].name : i \in {j \in 1..Len(type.fields) : type.fields[j].type.kind \in kinds}}

\* names of the named types of the given kinds that occur as field types
TypeNamesOfKind(kinds) == {t.name : t \in {u \in NamedTypes : u.kind \in kinds}}

\* no descriptor of list comes from a field of type with an innermost kind in kinds
NoneOfKind(list, type, kinds) ==
  /\ Range(namesOf(list)) \cap FieldNamesOfKind(type, kinds) = {}
  /\ \A i \in 1..Len(list) : list[i].type \notin TypeNamesOfKind(kinds)

NoneOfKindInDescriptor(m, d, kinds) ==
  /\ NoneOfKind(d.model, ModelTypeFor(m), kinds)
  /\ NoneOfKind(d.insertInput, InsertTypeFor(m), kinds)
  /\ NoneOfKind(d.setInput, SetTypeFor(m), kinds)
  /\ NoneOfKind(d.primaryKeys, PrimaryKeySourceFor(m), kinds)

\* C11: a field whose innermost type is an object or an input-object type is
\* in none of model, insertInput, setInput, primaryKeys of a returned
\* descriptor, whatever the filter and ordering options.
C11_NoObjectTypedField ==
  (pc = "done" /\ ~result.threw) =>
    \A i \in 1..Len(result.map) :
      NoneOfKindInDescriptor(result.map[i].key, result.map[i].value,
                             {"Object", "InputObject"})

\* a model type with the relation field posts and an insert-input type with
\* the nested input posts were built, and both lists are non-empty
C11_Witness ==
  /\ pc = "done"
  /\ ~result.threw
  /\ models = <<m_user>>
  /\ n_posts \in FieldNamesOfKind(ModelTypeFor(m_user), {"Object"})
  /\ n_posts \in FieldNamesOfKind(InsertTypeFor(m_user), {"InputObject"})
  /\ Len(result.map[1].value.model) > 0
  /\ Len(result.map[1].value.insertInput) > 0

\* C12: every descriptor of every returned list has a scalar or enum
\* innermost type; interface- and union-typed fields are excluded.
C12_OnlyScalarOrEnum ==
  (pc = "done" /\ ~result.threw) =>
    \A i \in 1..Len(result.map) :
      NoneOfKindInDescriptor(result.map[i].key, result.map[i].value,
                             Kinds \ {"Scalar", "Enum"})

\* head / remainder / tail order of a list fs, as ExpectedOrder
HeadMatchedOf(fs, heads) == SelectSeq(Dedup(heads), LAMBDA n : n \in Range(namesOf(fs)))
TailMatchedOf(fs, heads, tails) ==
  SelectSeq(Dedup(tails), LAMBDA n : n \in Range(namesOf(fs)) /\ n \notin Range(heads))
ExpectedOrderOf(fs, heads, tails) ==
  LET hm == HeadMatchedOf(fs, heads)
      tm == TailMatchedOf(fs, heads, tails)
  IN [i \in 1..Len(hm) |-> FieldNamed(fs, hm[i])]
     \o SelectSeq(fs, LAMBDA f : f.name \notin Range(hm) \cup Range(tm))
     \o [i \in 1..Len(tm) |-> FieldNamed(fs, tm[i])]

\* the filtered field list of type when it has the expected kind, else empty
FilteredFor(type, kind) ==
  IF type.kind = kind THEN buildModelSchema(type, options) ELSE <<>>

\* the names of list, in the order the fields are declared in type
InDeclarationOrder(list, type) ==
  namesOf(list) = SelectSeq(namesOf(type.fields), LAMBDA n : n \in Range(namesOf(list)))

\* C13: model, insertInput and setInput are each the head/tail ordering of
\* their own filtered list; primaryKeys is never reordered: when the
\* pk-input type resolves it is that type's filtered list in declaration
\* order, whatever headFields and tailFields hold.
C13_OrderingNotOnPrimaryKeys ==
  (pc = "done" /\ ~result.threw) =>
    \A i \in 1..Len(result.map) :
      LET m == result.map[i].key
          d == result.map[i].value
      IN /\ d.model = ExpectedOrderOf(FilteredFor(ModelTypeFor(m), "Object"),
                                      options.headFields, options.tailFields)
         /\ d.insertInput = ExpectedOrderOf(FilteredFor(InsertTypeFor(m), "InputObject"),
                                            options.headFields, options.tailFields)
         /\ d.setInput = ExpectedOrderOf(FilteredFor(SetTypeFor(m), "InputObject"),
                                         options.headFields, options.tailFields)
         /\ PkResolves(m) =>
              /\ d.primaryKeys = FilteredFor(PkTypeFor(m), "InputObject")
              /\ InDeclarationOrder(d.primaryKeys, PkTypeFor(m))

\* the model list of user is reordered, the primary keys of UserRole are
\* not, although tailFields names the first of them
C13_Witness ==
  /\ pc = "done"
  /\ ~result.threw
  /\ models = <<m_user, m_UserRole>>
  /\ options.tailFields = <<n_id>>
  /\ namesOf(result.map[1].value.model) = <<n_name, n_id>>
  /\ PkResolves(m_UserRole)
  /\ namesOf(result.map[2].value.primaryKeys) = <<n_id, n_role>>

\* C14: when no pk-input type resolves, primaryKeys holds exactly the
\* filtered model descriptors whose name is in primaryKeyNames, each once;
\* [id, uuid] with model fields id and name gives the descriptor of id, an
\* undefined primaryKeyNames gives none.
C14_PrimaryKeyFallback ==
  (pc = "done" /\ ~result.threw) =>
    \A i \in 1..Len(result.map) :
      LET m == result.map[i].key
          d == result.map[i].value
          filtered == FilteredFor(ModelTypeFor(m), "Object")
      IN ~PkResolves(m) =>
           /\ Range(d.primaryKeys) =
                {x \in Range(filtered) :
                   /\ options.primaryKeyNames.defined
                   /\ x.name \in Range(options.primaryKeyNames.list)}
           /\ Len(d.primaryKeys) = Cardinality(Range(d.primaryKeys))
           /\ ~options.primaryKeyNames.defined => d.primaryKeys = <<>>
           /\ (/\ options.primaryKeyNames = Defined(<<n_id, n_uuid>>)
               /\ Range(namesOf(filtered)) = {n_id, n_name})
                => d.primaryKeys = <<FieldNamed(filtered, n_id)>>

C14_Witness ==
  /\ pc = "done"
  /\ ~result.threw
  /\ models = <<m_user>>
  /\ ~PkResolves(m_user)
  /\ options.primaryKeyNames = Defined(<<n_id, n_uuid>>)
  /\ Range(namesOf(result.map[1].value.model)) = {n_id, n_name}
  /\ namesOf(result.map[1].value.primaryKeys) = <<n_id>>

\* C15: in the fallback path a field excluded by disableFields,
\* disableFieldPrefixes or disableFieldSuffixes is never in primaryKeys,
\* also when primaryKeyNames lists it.
C15_FallbackAfterFilter ==
  (pc = "done" /\ ~result.threw) =>
    \A i \in 1..Len(result.map) :
      ~PkResolves(result.map[i].key) =>
        \A j \in 1..Len(result.map[i].value.primaryKeys) :
          ~ExcludedByRules(result.map[i].value.primaryKeys[j].name, options)

\* id is a leaf field of the model type and a primary-key name, the prefix
\* rule excludes it, and the primary keys are empty
C15_Witness ==
  /\ pc = "done"
  /\ ~result.threw
  /\ models = <<m_user>>
  /\ ~PkResolves(m_user)
  /\ ModelTypeFor(m_user).kind = "Object"
  /\ n_id \in Range(namesOf(ModelTypeFor(m_user).fields))
  /\ optIncludes(options.primaryKeyNames, n_id)
  /\ ExcludedByRules(n_id, options)
  /\ result.map[1].value.primaryKeys = <<>>

\* the candidate type names of the two model names, written out: for the
\* model, insert-input, set-input and pk-input type in this order
CandidatesUser ==
  [model |-> [snake |-> <<"u","s","e","r">>,
       camel |-> <<"u","s","e","r">>,
       kind |-> "Object", sorted |-> TRUE],
   insertInput |-> [snake |-> <<"u","s","e","r","_","i","n","s","e","r","t","_","i","n","p","u","t">>,
       camel |-> <<"u","s","e","r","I","n","s","e","r","t","I","n","p","u","t">>,
       kind |-> "InputObject", sorted |-> TRUE],
   setInput |-> [snake |-> <<"u","s","e","r","_","s","e","t","_","i","n","p","u","t">>,
       camel |-> <<"u","s","e","r","S","e","t","I","n","p","u","t">>,
       kind |-> "InputObject", sorted |-> TRUE],
   primaryKeys |-> [snake |-> <<"u","s","e","r","_","p","k","_","c","o","l","u","m","n","s","_","i","n","p","u","t">>,
       camel |-> <<"u","s","e","r","P","k","C","o","l","u","m","n","s","I","n","p","u","t">>,
       kind |-> "InputObject", sorted |-> FALSE] ]

CandidatesUserRole ==
  [model |-> [snake |-> <<"u","s","e","r","_","r","o","l","e">>,
       camel |-> <<"u","s","e","r","R","o","l","e">>,
       kind |-> "Object", sorted |-> TRUE],
   insertInput |-> [snake |-> <<"u","s","e","r","_","r","o","l","e","_","i","n","s","e","r","t","_","i","n","p","u","t">>,
       camel |-> <<"u","s","e","r","R","o","l","e","I","n","s","e","r","t","I","n","p","u","t">>,
       kind |-> "InputObject", sorted |-> TRUE],
   setInput |-> [snake |-> <<"u","s","e","r","_","r","o","l","e","_","s","e","t","_","i","n","p","u","t">>,
       camel |-> <<"u","s","e","r","R","o","l","e","S","e","t","I","n","p","u","t">>,
       kind |-> "InputObject", sorted |-> TRUE],
   primaryKeys |-> [snake |-> <<"u","s","e","r","_","r","o","l","e","_","p","k","_","c","o","l","u","m","n","s","_","i","n","p","u","t">>,
       camel |-> <<"u","s","e","r","R","o","l","e","P","k","C","o","l","u","m","n","s","I","n","p","u","t">>,
       kind |-> "InputObject", sorted |-> FALSE] ]

Candidates(m) == IF m = m_user THEN CandidatesUser ELSE CandidatesUserRole
SlotModel == "model"
SlotInsertInput == "insertInput"
SlotSetInput == "setInput"
SlotPrimaryKeys == "primaryKeys"
Slots == {SlotModel, SlotInsertInput, SlotSetInput, SlotPrimaryKeys}

SnakeType(m, k) == getType(schema, Candidates(m)[k].snake)
CamelType(m, k) == getType(schema, Candidates(m)[k].camel)
SnakeResolves(m, k) == SnakeType(m, k).kind = Candidates(m)[k].kind
CamelResolves(m, k) == CamelType(m, k).kind = Candidates(m)[k].kind

\* the list number k of descriptor d
SlotList(d, k) ==
  CASE k = SlotModel -> d.model
    [] k = SlotInsertInput -> d.insertInput
    [] k = SlotSetInput -> d.setInput
    [] k = SlotPrimaryKeys -> d.primaryKeys

\* the list number k as built from type
BuiltFrom(m, k, type) ==
  IF Candidates(m)[k].sorted
  THEN ExpectedOrderOf(buildModelSchema(type, options),
                       options.headFields, options.tailFields)
  ELSE buildModelSchema(type, options)

\* C16: for each of the four looked-up types, when both the snake_case and
\* the camelCase candidate name hold a type of the expected kind, the field
\* list is built from the snake_case type.
C16_SnakeCaseWins ==
  (pc = "done" /\ ~result.threw) =>
    \A i \in 1..Len(result.map) : \A k \in Slots :
      LET m == result.map[i].key
      IN (SnakeResolves(m, k) /\ CamelResolves(m, k)) =>
           SlotList(result.map[i].value, k) = BuiltFrom(m, k, SnakeType(m, k))

\* user_role and userRole are both object types with different fields
C16_Witness ==
  /\ pc = "done"
  /\ ~result.threw
  /\ models = <<m_UserRole>>
  /\ SnakeResolves(m_UserRole, SlotModel)
  /\ CamelResolves(m_UserRole, SlotModel)
  /\ SnakeType(m_UserRole, SlotModel) # CamelType(m_UserRole, SlotModel)
  /\ result.map[1].value.model = BuiltFrom(m_UserRole, SlotModel, SnakeType(m_UserRole, SlotModel))
  /\ result.map[1].value.model # BuiltFrom(m_UserRole, SlotModel, CamelType(m_UserRole, SlotModel))

\* the fallback of primaryKeys, from the descriptor's own filtered model list
FallbackKeys(m) ==
  SelectSeq(FilteredFor(ModelTypeFor(m), "Object"),
            LAMBDA x : /\ options.primaryKeyNames.defined
                       /\ x.name \in Range(options.primaryKeyNames.list))

\* C17: for each of the four looked-up types, a snake_case candidate that
\* is missing or of the wrong kind gives way to a camelCase candidate of the
\* expected kind; when neither has the expected kind the type gives an empty
\* list (for primaryKeys: nothing but the fallback) and no failure, so a
\* call fails only for a model none of whose three types gives a field.
C17_CamelCaseFallback ==
  /\ (pc = "done" /\ ~result.threw) =>
       \A i \in 1..Len(result.map) : \A k \in Slots :
         LET m == result.map[i].key
             list == SlotList(result.map[i].value, k)
         IN /\ (~SnakeResolves(m, k) /\ CamelResolves(m, k)) =>
                 list = BuiltFrom(m, k, CamelType(m, k))
            /\ (~SnakeResolves(m, k) /\ ~CamelResolves(m, k)) =>
                 list = IF k = SlotPrimaryKeys THEN FallbackKeys(m) ELSE <<>>
  /\ (pc = "done" /\ result.threw) =>
       \A k \in Slots \ {SlotPrimaryKeys} :
         \/ ~SnakeResolves(result.error, k) /\ ~CamelResolves(result.error, k)
         \/ BuiltFrom(result.error, k,
                      IF SnakeResolves(result.error, k)
                      THEN SnakeType(result.error, k)
                      ELSE CamelType(result.error, k)) = <<>>

\* user_insert_input is missing: the insert
\* type of user comes from the camelCase name, its model and set types are
\* absent, and the call returns a descriptor
C17_Witness ==
  /\ pc = "done"
  /\ ~result.threw
  /\ models = <<m_user>>
  /\ ~SnakeResolves(m_user, SlotInsertInput)
  /\ CamelResolves(m_user, SlotInsertInput)
  /\ ~SnakeResolves(m_user, SlotModel) /\ ~CamelResolves(m_user, SlotModel)
  /\ ~SnakeResolves(m_user, SlotSetInput) /\ ~CamelResolves(m_user, SlotSetInput)
  /\ namesOf(result.map[1].value.insertInput) = <<n_name>>
  /\ result.map[1].value.model = <<>>
  /\ result.map[1].value.setInput = <<>>

\* C18: on success the map has one entry for each distinct requested name,
\* keyed by the name as supplied, in the order the names were supplied.
C18_OneEntryPerNameInOrder ==
  (pc = "done" /\ ~result.threw) =>
    [i \in 1..Len(result.map) |-> result.map[i].key] = Dedup(models)

C18_Witness ==
  /\ pc = "done"
  /\ ~result.threw
  /\ models = <<m_UserRole, m_user>>
  /\ Len(result.map) = 2
  /\ result.map[1].key = m_UserRole
  /\ result.map[2].key = m_user

C18_WitnessRepeated ==
  /\ pc = "done"
  /\ ~result.threw
  /\ models = <<m_user, m_user>>
  /\ Len(result.map) = 1

(***************************************************************************)
(* Properties of a run of several calls.                                   *)
(***************************************************************************)
\* the descriptor call c returned for model m
DescriptorIn(c, m) ==
  c.result.map[CHOOSE i \in 1..Len(c.result.map) : c.result.map[i].key = m].value

ReturnedFor(c, m) ==
  ~c.result.threw /\ \E i \in 1..Len(c.result.map) : c.result.map[i].key = m

C20_ArgumentsUnchanged ==
  [][/\ schema' = schema
     /\ options' = options
     /\ fields' = fields]_vars

\* sortFieldOrder has returned a list in another order than the one handed in
C20_Witness ==
  /\ pc = "done"
  /\ Len(fields) > 1
  /\ Len(sorted) = Len(fields)
  /\ sorted # fields

(***************************************************************************)
(* Algebra of sortFieldOrder.                                              *)
(***************************************************************************)
\* how often x occurs in list
Occurrences(list, x) == Cardinality({i \in 1..Len(list) : list[i] = x})

UniqueNames(list) ==
  \A i, j \in 1..Len(list) : list[i].name = list[j].name => i = j

\* C21: for a field list with unique names and any head and tail names,
\* repeated or in both lists, the returned list is a permutation of the
\* list handed in: each field once, none added, dropped or doubled.
C21_SortIsPermutation ==
  (pc = "done" /\ UniqueNames(fields)) =>
    /\ Len(sorted) = Len(fields)
    /\ \A x \in Range(fields) \cup Range(sorted) :
         Occurrences(sorted, x) = 1 /\ Occurrences(fields, x) = 1

\* a name repeated in headFields and also in tailFields, fields left unpicked
C21_Witness ==
  /\ pc = "done"
  /\ headFields = <<n_c, n_c>>
  /\ tailFields = <<n_c, n_a>>
  /\ namesOf(fields) = <<n_a, n_b, n_c, n_d>>
  /\ namesOf(sorted) = <<n_c, n_b, n_d, n_a>>

\* C24: sorting the returned list again with the same head and tail names
\* gives the returned list, and when no name matches a field, as with empty
\* head and tail names, the returned list is the list handed in.
C24_SortIdempotent ==
  (pc = "done" /\ UniqueNames(fields)) =>
    /\ sortFieldOrder(sorted, headFields, tailFields) = sorted
    /\ (Range(headFields) \cup Range(tailFields)) \cap Range(namesOf(fields)) = {}
         => sorted = fields

\* a list that the first sort reordered, with unpicked fields in between
C24_Witness ==
  /\ pc = "done"
  /\ headFields = <<n_c>>
  /\ tailFields = <<n_a>>
  /\ namesOf(fields) = <<n_a, n_b, n_c, n_d>>
  /\ sorted # fields
  /\ sortFieldOrder(sorted, headFields, tailFields) = sorted

\* no name at all, and names that match nothing
C24_WitnessIdentity ==
  /\ pc = "done"
  /\ headFields = <<>>
  /\ tailFields = <<n_z>>
  /\ Len(fields) > 1
  /\ sorted = fields

(***************************************************************************)
(* Primary keys.                                                           *)
(***************************************************************************)
\* every field of type is removed, by a disable rule or by the leaf rule
AllFieldsRemoved(type) ==
  \A i \in 1..Len(type.fields) :
    \/ ExcludedByRules(type.fields[i].name, options)
    \/ NotLeaf(type.fields[i].type)

\* C22: when the pk-input type resolves and all its fields are removed by
\* the rules or as non-leaves, primaryKeys is empty; with a resolved
\* pk-input type primaryKeys holds fields of that type only, never the
\* primaryKeyNames fallback.
C22_ResolvedEmptyStaysEmpty ==
  (pc = "done" /\ ~result.threw) =>
    \A i \in 1..Len(result.map) :
      LET m == result.map[i].key
          d == result.map[i].value
      IN PkResolves(m) =>
           /\ AllFieldsRemoved(PkTypeFor(m)) => d.primaryKeys = <<>>
           /\ Range(namesOf(d.primaryKeys)) \subseteq Range(namesOf(PkTypeFor(m).fields))

\* the pk-input type resolves with all fields removed while the model has
\* fields that primaryKeyNames names
C22_Witness ==
  /\ pc = "done"
  /\ ~result.threw
  /\ PkResolves(m_user)
  /\ Len(PkTypeFor(m_user).fields) > 0
  /\ AllFieldsRemoved(PkTypeFor(m_user))
  /\ FallbackKeys(m_user) # <<>>
  /\ result.map[1].value.primaryKeys = <<>>

\* C23: in the fallback path primaryKeys lists its fields in the order the
\* model type declares them, and each of them is the very descriptor of
\* that name in the returned model list.
C23_FallbackDeclarationOrder ==
  (pc = "done" /\ ~result.threw) =>
    \A i \in 1..Len(result.map) :
      LET m == result.map[i].key
          d == result.map[i].value
      IN ~PkResolves(m) =>
           /\ InDeclarationOrder(d.primaryKeys, ModelTypeFor(m))
           /\ \A j \in 1..Len(d.primaryKeys) :
                /\ Occurrences(namesOf(d.model), d.primaryKeys[j].name) = 1
                /\ FieldNamed(d.model, d.primaryKeys[j].name) = d.primaryKeys[j]

\* uuid is declared before id, primaryKeyNames has id first and headFields
\* moves id to the front of the model list
C23_Witness ==
  /\ pc = "done"
  /\ ~result.threw
  /\ ~PkResolves(m_user)
  /\ options.primaryKeyNames = Defined(<<n_id, n_uuid>>)
  /\ namesOf(result.map[1].value.model) = <<n_id, n_uuid>>
  /\ namesOf(result.map[1].value.primaryKeys) = <<n_uuid, n_id>>

(***************************************************************************)
(* Configuration loader.                                                   *)
(***************************************************************************)
\* the configuration has a schema value
SchemaPresent == loader.schema.type # "undefined" /\ ~loader.schema.isNull

SchemaIsStringOrArray == loader.schema.type = "string" \/ loader.schema.isArray

\* C25: once the configuration is read, a schema value that is present and
\* neither a string nor an array (an object, a number, a boolean) has made
\* the loader fail with the invalid-schema-config error, with no prompt
\* shown and no schema fetched; a string or an array never gives that error.
C25_InvalidSchemaConfig ==
  pc # "init" =>
    /\ (SchemaPresent /\ ~SchemaIsStringOrArray) =>
         /\ pc = "failed"
         /\ loader.error = invalidSchemaConfig
         /\ loader.prompts = <<>>
         /\ ~loader.fetched
    /\ SchemaIsStringOrArray => loader.error # invalidSchemaConfig

(***************************************************************************)
(* Prompt validation.                                                      *)
(***************************************************************************)
\* the whole of answer is names of word characters separated by single commas
IsNameList(answer) ==
  /\ answer # <<>>
  /\ \A i \in 1..Len(answer) : isWordChar(answer[i]) \/ answer[i] = ","
  /\ answer[1] # "," /\ answer[Len(answer)] # ","
  /\ \A i \in 1..(Len(answer) - 1) : ~(answer[i] = "," /\ answer[i + 1] = ",")

\* C26: a non-empty answer to a name-list question is accepted only when
\* the whole answer is a comma-separated list of word-character names, and
\* any other non-empty answer is rejected with a message.
C26_AcceptsOnlyNameLists ==
  (pc = "done" /\ question.answer # <<>>) =>
    /\ question.verdict.ok <=> IsNameList(question.answer)
    /\ ~question.verdict.ok => question.verdict.message # ""

(***************************************************************************)
(* Order of the steps of generate.                                         *)
(***************************************************************************)
GraphQLSelected == run.action \in {"graphql", "all"}
TemplateSelected == run.action \in {"template", "all"}
GraphQLRan == run.files # <<>>
TemplateRan == run.template # "idle"
Reported == \E i \in 1..Len(run.log) : run.log[i] = "Outputs generated!"

\* C27: a step runs only if its action is selected, "all" selecting both
\* steps and any other action itself only; template rendering starts only
\* when every GraphQL file of the run is written; "Outputs generated!" is
\* reported only when every selected step has finished.
C27_StepsInOrder ==
  /\ GraphQLRan => GraphQLSelected
  /\ TemplateRan => TemplateSelected
  /\ TemplateRan => \A i \in 1..Len(run.files) : run.files[i] = "written"
  /\ Reported =>
       /\ GraphQLSelected =>
            /\ Len(run.files) = Len(graphqlCalls(run.models, run.separateFiles))
            /\ \A i \in 1..Len(run.files) : run.files[i] = "written"
       /\ TemplateSelected =>
            /\ run.template = "done"
            /\ Len(run.renders) = Len(run.models)
            /\ \A i \in 1..Len(run.renders) : run.renders[i] = "rendered"

\* both steps of a run with one file per model have finished and the run
\* has reported
C27_Witness ==
  /\ pc = "done"
  /\ run.action = "all"
  /\ run.separateFiles
  /\ Len(run.files) = 2
  /\ Len(run.renders) = 2
  /\ Reported

====
